---------------------------- MODULE Spec2Model ----------------------------
(***************************************************************************)
(* goDNS: the DNS wire codec (pkg/dns) and the client that drives it       *)
(* (pkg/client).  Byte buffers are sequences over 0..255; a Go index i     *)
(* (0-based) addresses element i+1 of the sequence.  Go strings are        *)
(* sequences of character codes.                                           *)
(***************************************************************************)
EXTENDS Integers, Sequences, FiniteSets, TLC

VARIABLES
    config,         \* Client.config: Protocol, RecursionDesired, RetryCount
    pc,             \* where Client.Query stands: idle, dial, write, read, done
    asked,          \* the domain Query was called with
    query,          \* the Message built by buildQuery (or handed to ToBytes)
    queryBytes,     \* the bytes sendQuery hands to conn.Write
    responseBytes,  \* the bytes conn.Read delivered
    response,       \* what Query / parseResponse returned
    net,            \* how often the connection was dialed, written and read
    naming,         \* the labels and the string made from the domain in asked
    calls           \* the locals of each codec call running concurrently

vars == <<config, pc, asked, query, queryBytes, responseBytes, response, net,
          naming, calls>>

---------------------------------------------------------------------------
(* Program constants.                                                      *)

TypeA == 1
TypeNS == 2
TypeTXT == 16
TypeAAAA == 28
ClassIN == 1
HeaderQRQuery == 0
HeaderQRResponse == 32768
HeaderOpcodeQuery == 0
HeaderRD == 256
HeaderRA == 128
HeaderSize == 12
PointerFlag == 192
PointerMask == 16383
MaxDomainLen == 253
MaxLabelLen == 63
Dot == 46
Hyphen == 45

---------------------------------------------------------------------------
(* Fixed-width integers and big-endian fields (encoding/binary).          *)

\* uint16(x): conversion of an int to 16 bits
Uint16(x) == x % 65536

\* binary.Write(buf, binary.BigEndian, v) for a 16-bit v
PutUint16(v) == << (v \div 256) % 256, v % 256 >>

\* binary.Write(buf, binary.BigEndian, v) for an int32 v (two's complement)
PutInt32(v) ==
    LET hi == (v \div 16777216) % 256
        lo == v % 16777216
    IN  << hi, (lo \div 65536) % 256, (lo \div 256) % 256, lo % 256 >>

\* data[lo:hi] is a legal slice expression that stays inside len(data)
SliceOK(data, lo, hi) == 0 <= lo /\ lo <= hi /\ hi <= Len(data)

\* data[i] is a legal index expression
IndexOK(data, i) == 0 <= i /\ i < Len(data)

\* data[lo:hi]
Slice(data, lo, hi) == SubSeq(data, lo + 1, hi)

\* binary.BigEndian.Uint16(data[i:i+2])
BigEndianUint16(data, i) == data[i + 1] * 256 + data[i + 2]

\* int32(binary.BigEndian.Uint32(data[i:i+4]))
BigEndianInt32(data, i) ==
    LET hi == IF data[i + 1] >= 128 THEN data[i + 1] - 256 ELSE data[i + 1]
    IN  hi * 16777216 + data[i + 2] * 65536 + data[i + 3] * 256 + data[i + 4]

RECURSIVE Zeros(_)
\* make([]byte, n)
Zeros(n) == IF n <= 0 THEN << >> ELSE <<0>> \o Zeros(n - 1)

RECURSIVE Concat(_)
\* the concatenation of a sequence of byte sequences (successive buf.Write)
Concat(parts) ==
    IF parts = << >> THEN << >> ELSE Head(parts) \o Concat(Tail(parts))

---------------------------------------------------------------------------
(* Labels and domain strings (pkg/dns labels).                             *)

Label(length, data) == [Length |-> length, Data |-> data]

\* strings.TrimSuffix(domain, ".")
TrimSuffixDot(domain) ==
    IF Len(domain) > 0 /\ domain[Len(domain)] = Dot
    THEN SubSeq(domain, 1, Len(domain) - 1)
    ELSE domain

\* the positions of the separators in s
DotsIn(s) == {i \in 1..Len(s) : s[i] = Dot}

\* the position of the k-th separator of s; 0 before the first,
\* Len(s) + 1 after the last
DotAt(s, k) ==
    IF k = 0 THEN 0
    ELSE IF k > Cardinality(DotsIn(s)) THEN Len(s) + 1
    ELSE CHOOSE i \in DotsIn(s) : Cardinality({j \in DotsIn(s) : j < i}) = k - 1

\* strings.Split(s, "."): the parts between the separators, empty ones kept
SplitDots(s) ==
    [k \in 1..(Cardinality(DotsIn(s)) + 1) |->
        SubSeq(s, DotAt(s, k - 1) + 1, DotAt(s, k) - 1)]

\* StringToLabels without the removal of the trailing dot
StringToLabelsUntrimmed(domain) ==
    LET parts == SplitDots(domain)
    IN  IF domain = << >> THEN << Label(0, << >>) >>
        ELSE [i \in 1..Len(parts) |-> Label(Len(parts[i]) % 256, parts[i])]
             \o << Label(0, << >>) >>

StringToLabels(domain) ==
    LET d == TrimSuffixDot(domain)
        parts == SplitDots(d)
    IN  IF d = << >> THEN << Label(0, << >>) >>
        ELSE [i \in 1..Len(parts) |-> Label(Len(parts[i]) % 256, parts[i])]
             \o << Label(0, << >>) >>

RECURSIVE JoinDots(_)
\* strings.Join(parts, ".")
JoinDots(parts) ==
    IF Len(parts) = 0 THEN << >>
    ELSE IF Len(parts) = 1 THEN parts[1]
    ELSE parts[1] \o << Dot >> \o JoinDots(Tail(parts))

RECURSIVE PartsUntilNull(_, _)
\* the range loop of LabelsToString from label i on: it breaks at Length 0
PartsUntilNull(labels, i) ==
    IF i > Len(labels) THEN << >>
    ELSE IF labels[i].Length = 0 THEN << >>
    ELSE << labels[i].Data >> \o PartsUntilNull(labels, i + 1)

LabelsToString(labels) ==
    IF Len(labels) = 0 THEN << >>
    ELSE JoinDots(PartsUntilNull(labels, 1))

IsAlnum(c) ==
    \/ c \in 48..57
    \/ c \in 65..90
    \/ c \in 97..122

\* labelRegex: ^[a-zA-Z0-9]([a-zA-Z0-9\-]{0,61}[a-zA-Z0-9])?$
LabelRegexMatch(label) ==
    /\ Len(label) >= 1
    /\ Len(label) <= MaxLabelLen
    /\ IsAlnum(label[1])
    /\ IsAlnum(label[Len(label)])
    /\ \A i \in 1..Len(label) : IsAlnum(label[i]) \/ label[i] = Hyphen

\* ValidateDomain accepting every string
ValidateDomainAny(domain) == Len(domain) >= 0

\* ValidateDomain(domain) == nil
ValidateDomain(domain) ==
    /\ Len(domain) # 0
    /\ Len(domain) <= MaxDomainLen
    /\ LET labels == SplitDots(TrimSuffixDot(domain))
       IN  /\ Len(labels) >= 1
           /\ \A i \in 1..Len(labels) :
                 /\ Len(labels[i]) # 0
                 /\ Len(labels[i]) <= MaxLabelLen
                 /\ LabelRegexMatch(labels[i])

\* Label.ToBytes
LabelToBytes(l) == << l.Length >> \o l.Data

\* the loop "for _, label := range name { buf.Write(label.ToBytes()) }"
NameToBytes(name) == Concat([i \in 1..Len(name) |-> LabelToBytes(name[i])])

---------------------------------------------------------------------------
(* net.IP and the typed record data (pkg/records).                         *)

V4InV6Prefix == Zeros(10) \o << 255, 255 >>

\* net.IPv4(a, b, c, d): the 16-byte IPv4-mapped form
IPv4(a, b, c, d) == V4InV6Prefix \o << a, b, c, d >>

\* ip.To4(); nil is the empty sequence
To4(ip) ==
    IF Len(ip) = 4 THEN ip
    ELSE IF Len(ip) = 16 /\ SubSeq(ip, 1, 12) = V4InV6Prefix
         THEN SubSeq(ip, 13, 16)
         ELSE << >>

\* ip.To16(); nil is the empty sequence
To16(ip) ==
    IF Len(ip) = 4 THEN IPv4(ip[1], ip[2], ip[3], ip[4])
    ELSE IF Len(ip) = 16 THEN ip
    ELSE << >>

\* One shape for every ResourceData implementation; variant tells which.
RData(variant, recordType, address, nameServer, data) ==
    [variant |-> variant, RecordType |-> recordType, Address |-> address,
     NameServer |-> nameServer, Data |-> data]

ARecord(address) == RData("A", TypeA, address, << >>, << >>)
AAAARecord(address) == RData("AAAA", TypeAAAA, address, << >>, << >>)

\* records.NewNSRecord
NewNSRecord(nameserver) == RData("NS", TypeNS, << >>, nameserver, << >>)

\* a GenericRecord value holding exactly these bytes (struct literal)
GenericRecord(recordType, data) == RData("Generic", recordType, << >>, << >>, data)

\* records.NewGenericRecord: Data is make([]byte, len(data)); nothing is copied
NewGenericRecord(recordType, data) == GenericRecord(recordType, Zeros(Len(data)))

\* NewARecord refusing every address
NewARecordRefusing(ip) == [ok |-> FALSE, rdata |-> ARecord(<< >>)]

\* records.NewARecord: [ok, rdata]
NewARecord(ip) ==
    IF To4(ip) # << >>
    THEN [ok |-> TRUE, rdata |-> ARecord(To4(ip))]
    ELSE [ok |-> FALSE, rdata |-> ARecord(<< >>)]

\* records.NewAAAARecord: [ok, rdata]
NewAAAARecord(ip) ==
    IF To4(ip) # << >> THEN [ok |-> FALSE, rdata |-> AAAARecord(<< >>)]
    ELSE IF To16(ip) = << >> THEN [ok |-> FALSE, rdata |-> AAAARecord(<< >>)]
    ELSE [ok |-> TRUE, rdata |-> AAAARecord(To16(ip))]

\* ResourceData.Bytes()
RDataBytes(rdata) ==
    CASE rdata.variant = "A" -> To4(rdata.Address)
      [] rdata.variant = "AAAA" -> To16(rdata.Address)
      [] rdata.variant = "NS" -> NameToBytes(rdata.NameServer)
      [] OTHER -> rdata.Data

---------------------------------------------------------------------------
(* Messages and their wire encoding (pkg/dns message).                     *)

Header(id, flags, qd, an, ns, ar) ==
    [ID |-> id, Flags |-> flags, QDCount |-> qd, ANCount |-> an,
     NSCount |-> ns, ARCount |-> ar]

Question(name, type, class) == [Name |-> name, Type |-> type, Class |-> class]

ResourceRecord(name, type, class, ttl, rdLength, rdata) ==
    [Name |-> name, Type |-> type, Class |-> class, TTL |-> ttl,
     RDLength |-> rdLength, RData |-> rdata]

Message(header, question, answer, authority, additional) ==
    [nil |-> FALSE, Header |-> header, Question |-> question,
     Answer |-> answer, Authority |-> authority, Additional |-> additional]

\* the nil *dns.Message
NilMessage ==
    [nil |-> TRUE, Header |-> Header(0, 0, 0, 0, 0, 0), Question |-> << >>,
     Answer |-> << >>, Authority |-> << >>, Additional |-> << >>]

\* Header.toBytes with binary.LittleEndian
HeaderToBytesLittleEndian(h) ==
    << h.ID % 256, h.ID \div 256, h.Flags % 256, h.Flags \div 256,
       h.QDCount % 256, h.QDCount \div 256, h.ANCount % 256, h.ANCount \div 256,
       h.NSCount % 256, h.NSCount \div 256, h.ARCount % 256, h.ARCount \div 256 >>

\* Header.toBytes
HeaderToBytes(h) ==
    PutUint16(h.ID) \o PutUint16(h.Flags) \o PutUint16(h.QDCount)
    \o PutUint16(h.ANCount) \o PutUint16(h.NSCount) \o PutUint16(h.ARCount)

\* Question.toBytes
QuestionToBytes(q) ==
    NameToBytes(q.Name) \o PutUint16(q.Type) \o PutUint16(q.Class)

\* ResourceRecord.toBytes
ResourceRecordToBytes(rr) ==
    NameToBytes(rr.Name) \o PutUint16(rr.Type) \o PutUint16(rr.Class)
    \o PutInt32(rr.TTL) \o PutUint16(rr.RDLength) \o RDataBytes(rr.RData)

\* Message.ToBytes with the additional records written before the answers
ToBytesAdditionalFirst(m) ==
    HeaderToBytes(m.Header)
    \o Concat([i \in 1..Len(m.Question) |-> QuestionToBytes(m.Question[i])])
    \o Concat([i \in 1..Len(m.Additional) |-> ResourceRecordToBytes(m.Additional[i])])
    \o Concat([i \in 1..Len(m.Answer) |-> ResourceRecordToBytes(m.Answer[i])])
    \o Concat([i \in 1..Len(m.Authority) |-> ResourceRecordToBytes(m.Authority[i])])

\* Message.ToBytes (no call in it can fail: every write goes to a bytes.Buffer)
ToBytes(m) ==
    HeaderToBytes(m.Header)
    \o Concat([i \in 1..Len(m.Question) |-> QuestionToBytes(m.Question[i])])
    \o Concat([i \in 1..Len(m.Answer) |-> ResourceRecordToBytes(m.Answer[i])])
    \o Concat([i \in 1..Len(m.Authority) |-> ResourceRecordToBytes(m.Authority[i])])
    \o Concat([i \in 1..Len(m.Additional) |-> ResourceRecordToBytes(m.Additional[i])])

---------------------------------------------------------------------------
(* Decoding (pkg/client).  Every decoder returns a record whose kind is    *)
(*   "ok"       the Go function returned a value and a nil error,          *)
(*   "err"      it returned a non-nil error (err holds the message),       *)
(*   "panic"    an index or slice expression left the buffer,              *)
(*   "overflow" the recursion never returned: the goroutine stack grew     *)
(*              past its limit and the runtime ended the process.          *)

Crashed(r) == r.kind \in {"panic", "overflow"}

LabelsResult(kind, labels, index, err) ==
    [kind |-> kind, labels |-> labels, index |-> index, err |-> err]

LabelsErr(err) == LabelsResult("err", << >>, 0, err)

\* length&0xC0 == 0xC0
IsPointer(length) == (length \div 64) % 4 = 3

\* PointerAt without the mask that clears the two flag bits
PointerAtUnmasked(data, index) == BigEndianUint16(data, index)

\* int(binary.BigEndian.Uint16(data[index:index+2]) & 0x3FFF)
PointerAt(data, index) == BigEndianUint16(data, index) % (PointerMask + 1)

\* parseLabels is a function of (data, index) alone.  A call that meets a
\* pointer to the start index of a call still active (its own, or one further
\* up the chain) therefore repeats that call's steps and recurses without
\* end; a chain that never repeats a start index is finite, because every
\* nested call starts below len(data).
Recurses(active, pointer) == pointer \in active

RECURSIVE parseLabelsLoop(_, _, _, _, _)
\* The loop of parseLabels, entered with the cursor at index and the labels
\* read so far; active holds the start indices of the calls not yet returned.
parseLabelsLoop(data, index, originalIndex, labels, active) ==
    LET followed == FALSE
    IN
    IF ~(index < Len(data)) THEN LabelsErr("labels not properly terminated")
    ELSE IF ~IndexOK(data, index) THEN LabelsResult("panic", << >>, 0, "index out of range")
    ELSE
    LET length == data[index + 1]
    IN
    IF IsPointer(length) THEN
        IF index + 1 >= Len(data) THEN LabelsErr("compression pointer truncated")
        ELSE IF ~SliceOK(data, index, index + 2)
             THEN LabelsResult("panic", << >>, 0, "slice bounds out of range")
        ELSE
        LET pointer == PointerAt(data, index)
        IN
        IF pointer >= Len(data) THEN LabelsErr("invalid compression pointer")
        ELSE IF Recurses(active, pointer)
             THEN LabelsResult("overflow", << >>, 0, "stack overflow")
        ELSE
        LET sub == parseLabelsLoop(data, pointer, pointer, << >>, active \cup {pointer})
        IN
        IF Crashed(sub) THEN sub
        ELSE IF sub.kind = "err" THEN LabelsErr("failed to follow compression pointer")
        ELSE IF ~followed
             THEN LabelsResult("ok", labels \o sub.labels, index + 2, "")
             ELSE LabelsResult("ok", labels \o sub.labels, originalIndex + 2, "")
    ELSE IF length = 0 THEN
        IF ~followed
        THEN LabelsResult("ok", Append(labels, Label(0, << >>)), index + 1, "")
        ELSE LabelsResult("ok", Append(labels, Label(0, << >>)), originalIndex + 1, "")
    ELSE IF index + 1 + length > Len(data) THEN LabelsErr("label data truncated")
    ELSE IF ~SliceOK(data, index + 1, index + 1 + length)
         THEN LabelsResult("panic", << >>, 0, "slice bounds out of range")
    ELSE parseLabelsLoop(data, index + 1 + length, originalIndex,
                         Append(labels, Label(length, Slice(data, index + 1, index + 1 + length))),
                         active)

\* parseLabels taking the branch of followed: the cursor handed back is
\* counted from the index the call started at, not from where the scan stopped
parseLabelsFollowed(data, index) ==
    LET l == parseLabelsLoop(data, index, index, << >>, {index})
    IN  IF l.kind = "ok"
        THEN LabelsResult("ok", l.labels,
                          index + (IF l.index >= 2 /\ IsPointer(data[l.index - 1])
                                   THEN 2 ELSE 1), "")
        ELSE l

\* Client.parseLabels(data, index)
parseLabels(data, index) == parseLabelsLoop(data, index, index, << >>, {index})

QuestionResult(kind, question, index, err) ==
    [kind |-> kind, question |-> question, index |-> index, err |-> err]

NoQuestion == Question(<< >>, 0, 0)

\* parseQuestion once parseLabels has returned l
questionAfterName(data, l) ==
    IF Crashed(l) THEN QuestionResult(l.kind, NoQuestion, 0, l.err)
    ELSE IF l.kind = "err"
         THEN QuestionResult("err", NoQuestion, 0, "failed to parse question name")
    ELSE IF l.index + 4 > Len(data)
         THEN QuestionResult("err", NoQuestion, 0, "question data truncated")
    ELSE IF ~SliceOK(data, l.index, l.index + 4)
         THEN QuestionResult("panic", NoQuestion, 0, "slice bounds out of range")
    ELSE QuestionResult("ok",
                        Question(l.labels, BigEndianUint16(data, l.index),
                                 BigEndianUint16(data, l.index + 2)),
                        l.index + 4, "")

\* Client.parseQuestion(data, index)
parseQuestion(data, index) == questionAfterName(data, parseLabels(data, index))

RecordResult(kind, rr, index, err) ==
    [kind |-> kind, rr |-> rr, index |-> index, err |-> err]

NoRData == RData("none", 0, << >>, << >>, << >>)

NoRecord == ResourceRecord(<< >>, 0, 0, 0, 0, NoRData)

RDataResult(kind, rdata, err) == [kind |-> kind, rdata |-> rdata, err |-> err]

\* "case dns.TypeNS" once parseLabels(data, newIndex) has returned ns
nsData(rrType, rdataBytes, ns) ==
    IF Crashed(ns) THEN RDataResult(ns.kind, NoRData, ns.err)
    ELSE IF ns.kind = "err"
         THEN RDataResult("ok", NewGenericRecord(rrType, rdataBytes), "")
         ELSE RDataResult("ok", NewNSRecord(ns.labels), "")

\* The switch on rrType in parseResourceRecord
parseRData(data, newIndex, rrType, rdataBytes) ==
    CASE rrType = TypeA ->
           IF Len(rdataBytes) # 4
           THEN RDataResult("err", NoRData, "invalid A record length")
           ELSE LET a == NewARecord(IPv4(rdataBytes[1], rdataBytes[2],
                                         rdataBytes[3], rdataBytes[4]))
                IN  IF a.ok THEN RDataResult("ok", a.rdata, "")
                    ELSE RDataResult("ok", NewGenericRecord(rrType, rdataBytes), "")
      [] rrType = TypeAAAA ->
           IF Len(rdataBytes) # 16
           THEN RDataResult("err", NoRData, "invalid AAAA record length")
           ELSE LET a == NewAAAARecord(rdataBytes)
                IN  IF a.ok THEN RDataResult("ok", a.rdata, "")
                    ELSE RDataResult("ok", NewGenericRecord(rrType, rdataBytes), "")
      [] rrType = TypeNS -> nsData(rrType, rdataBytes, parseLabels(data, newIndex))
      [] OTHER -> RDataResult("ok", NewGenericRecord(rrType, rdataBytes), "")

\* recordAfterData handing back the cursor at the first RDATA byte
recordAfterDataUnadvanced(labels, rrType, rrClass, ttl, rdLength, newIndex, rd) ==
    IF Crashed(rd) THEN RecordResult(rd.kind, NoRecord, 0, rd.err)
    ELSE IF rd.kind = "err" THEN RecordResult("err", NoRecord, 0, rd.err)
    ELSE RecordResult("ok",
                      ResourceRecord(labels, rrType, rrClass, ttl, rdLength, rd.rdata),
                      newIndex, "")

\* the return of parseResourceRecord once the switch has produced rd
recordAfterData(labels, rrType, rrClass, ttl, rdLength, newIndex, rd) ==
    IF Crashed(rd) THEN RecordResult(rd.kind, NoRecord, 0, rd.err)
    ELSE IF rd.kind = "err" THEN RecordResult("err", NoRecord, 0, rd.err)
    ELSE RecordResult("ok",
                      ResourceRecord(labels, rrType, rrClass, ttl, rdLength, rd.rdata),
                      newIndex + rdLength, "")

\* parseResourceRecord once the fixed fields have been read
recordAfterFields(data, labels, rrType, rrClass, ttl, rdLength, newIndex) ==
    IF newIndex + rdLength > Len(data)
    THEN RecordResult("err", NoRecord, 0, "RR data truncated")
    ELSE IF ~SliceOK(data, newIndex, newIndex + rdLength)
         THEN RecordResult("panic", NoRecord, 0, "slice bounds out of range")
    ELSE recordAfterData(labels, rrType, rrClass, ttl, rdLength, newIndex,
                         parseRData(data, newIndex, rrType,
                                    Slice(data, newIndex, newIndex + rdLength)))

\* parseResourceRecord once parseLabels has returned l
recordAfterName(data, l) ==
    IF Crashed(l) THEN RecordResult(l.kind, NoRecord, 0, l.err)
    ELSE IF l.kind = "err" THEN RecordResult("err", NoRecord, 0, "failed to parse RR name")
    ELSE IF l.index + 10 > Len(data)
         THEN RecordResult("err", NoRecord, 0, "RR header data truncated")
    ELSE IF ~SliceOK(data, l.index, l.index + 10)
         THEN RecordResult("panic", NoRecord, 0, "slice bounds out of range")
    ELSE recordAfterFields(data, l.labels,
                           BigEndianUint16(data, l.index),
                           BigEndianUint16(data, l.index + 2),
                           BigEndianInt32(data, l.index + 4),
                           BigEndianUint16(data, l.index + 8),
                           l.index + 10)

\* Client.parseResourceRecord(data, index)
parseResourceRecord(data, index) == recordAfterName(data, parseLabels(data, index))

SectionResult(kind, items, index, err) ==
    [kind |-> kind, items |-> items, index |-> index, err |-> err]

RECURSIVE parseQuestions(_, _, _, _, _)

\* questionsStep with the question appended to the slice already made
questionsStepAppend(data, count, i, items, q) ==
    IF Crashed(q) THEN SectionResult(q.kind, << >>, 0, q.err)
    ELSE IF q.kind = "err" THEN SectionResult("err", << >>, 0, q.err)
    ELSE parseQuestions(data, q.index, count, i + 1, Append(items, q.question))

\* one turn of the question loop once parseQuestion has returned q
questionsStep(data, count, i, items, q) ==
    IF Crashed(q) THEN SectionResult(q.kind, << >>, 0, q.err)
    ELSE IF q.kind = "err" THEN SectionResult("err", << >>, 0, q.err)
    ELSE parseQuestions(data, q.index, count, i + 1,
                        [items EXCEPT ![i + 1] = q.question])

\* "for i := uint16(0); i < header.QDCount; i++" over the slice made with
\* QDCount entries; i is the loop counter, items the slice so far
parseQuestions(data, index, count, i, items) ==
    IF ~(i < count) THEN SectionResult("ok", items, index, "")
    ELSE questionsStep(data, count, i, items, parseQuestion(data, index))

RECURSIVE parseRecords(_, _, _, _, _)

\* one turn of a record loop once parseResourceRecord has returned r
recordsStep(data, count, i, items, r) ==
    IF Crashed(r) THEN SectionResult(r.kind, << >>, 0, r.err)
    ELSE IF r.kind = "err" THEN SectionResult("err", << >>, 0, r.err)
    ELSE parseRecords(data, r.index, count, i + 1,
                      [items EXCEPT ![i + 1] = r.rr])

\* "for i := uint16(0); i < count; i++" of the answer, authority and
\* additional sections
parseRecords(data, index, count, i, items) ==
    IF ~(i < count) THEN SectionResult("ok", items, index, "")
    ELSE recordsStep(data, count, i, items, parseResourceRecord(data, index))

\* Frame with the prefix counted into the length it declares
FrameCountsPrefix(bytes, protocol) ==
    IF protocol = "tcp"
    THEN PutUint16(Uint16(Len(bytes) + 2)) \o bytes
    ELSE bytes

\* the length prefix sendQuery puts before the query for tcp
Frame(bytes, protocol) ==
    IF protocol = "tcp"
    THEN PutUint16(Uint16(Len(bytes))) \o bytes
    ELSE bytes

\* Unframe without the comparison of declared and actual length
UnframeUnchecked(data, protocol) ==
    IF protocol = "tcp" THEN
        IF Len(data) < 2
        THEN [ok |-> FALSE, data |-> << >>, err |-> "TCP response too short for length prefix"]
        ELSE [ok |-> TRUE, data |-> Slice(data, 2, Len(data)), err |-> ""]
    ELSE [ok |-> TRUE, data |-> data, err |-> ""]

\* "Handle TCP length prefix" of parseResponse: [ok, data, err]
Unframe(data, protocol) ==
    IF protocol = "tcp" THEN
        IF Len(data) < 2
        THEN [ok |-> FALSE, data |-> << >>, err |-> "TCP response too short for length prefix"]
        ELSE IF BigEndianUint16(data, 0) # Len(data) - 2
        THEN [ok |-> FALSE, data |-> << >>, err |-> "TCP length mismatch"]
        ELSE [ok |-> TRUE, data |-> Slice(data, 2, Len(data)), err |-> ""]
    ELSE [ok |-> TRUE, data |-> data, err |-> ""]

\* the header parseResponse reads from the first 12 bytes
parseHeader(data, index) ==
    Header(BigEndianUint16(data, index), BigEndianUint16(data, index + 2),
           BigEndianUint16(data, index + 4), BigEndianUint16(data, index + 6),
           BigEndianUint16(data, index + 8), BigEndianUint16(data, index + 10))

ResponseResult(kind, msg, err) == [kind |-> kind, msg |-> msg, err |-> err]

ResponseErr(err) == ResponseResult("err", NilMessage, err)

\* a section loop ended without a value
SectionFailed(sec) ==
    IF Crashed(sec) THEN ResponseResult(sec.kind, NilMessage, sec.err)
    ELSE ResponseErr(sec.err)

\* parseResponse after the additional records
afterAdditional(header, qs, an, ns, ar) ==
    IF ar.kind # "ok" THEN SectionFailed(ar)
    ELSE ResponseResult("ok",
                        Message(header, qs.items, an.items, ns.items, ar.items), "")

\* parseResponse after the authority records
afterAuthority(data, header, qs, an, ns) ==
    IF ns.kind # "ok" THEN SectionFailed(ns)
    ELSE afterAdditional(header, qs, an, ns,
                         parseRecords(data, ns.index, header.ARCount, 0,
                                      [j \in 1..header.ARCount |-> NoRecord]))

\* parseResponse after the answer records
afterAnswer(data, header, qs, an) ==
    IF an.kind # "ok" THEN SectionFailed(an)
    ELSE afterAuthority(data, header, qs, an,
                        parseRecords(data, an.index, header.NSCount, 0,
                                     [j \in 1..header.NSCount |-> NoRecord]))

\* parseResponse after the questions
afterQuestions(data, header, qs) ==
    IF qs.kind # "ok" THEN SectionFailed(qs)
    ELSE afterAnswer(data, header, qs,
                     parseRecords(data, qs.index, header.ANCount, 0,
                                  [j \in 1..header.ANCount |-> NoRecord]))

\* afterHeader without the comparison of the IDs
afterHeaderAnyID(data, header, expectedID) ==
    afterQuestions(data, header,
                   parseQuestions(data, HeaderSize, header.QDCount, 0,
                                  [j \in 1..header.QDCount |-> NoQuestion]))

\* parseResponse once the header has been read
afterHeader(data, header, expectedID) ==
    IF header.ID # expectedID THEN ResponseErr("response ID does not match query ID")
    ELSE afterQuestions(data, header,
                        parseQuestions(data, HeaderSize, header.QDCount, 0,
                                       [j \in 1..header.QDCount |-> NoQuestion]))

\* parseResponse after the length prefix is gone
parseMessage(data, expectedID) ==
    IF Len(data) < HeaderSize THEN ResponseErr("DNS response too short")
    ELSE IF ~SliceOK(data, 0, HeaderSize)
         THEN ResponseResult("panic", NilMessage, "slice bounds out of range")
    ELSE afterHeader(data, parseHeader(data, 0), expectedID)

\* the return of parseResponse once the length prefix has been handled
afterUnframe(u, expectedID) ==
    IF ~u.ok THEN ResponseErr(u.err) ELSE parseMessage(u.data, expectedID)

\* Client.parseResponse(data, expectedID) under c.config.Protocol
parseResponse(data, expectedID, protocol) ==
    afterUnframe(Unframe(data, protocol), expectedID)

\* Client.buildQuery(domain, qtype) when rand.Intn(65536) gives queryID
buildQuery(domain, qtype, queryID, recursionDesired) ==
    LET flags == HeaderQRQuery + HeaderOpcodeQuery
                 + (IF recursionDesired THEN HeaderRD ELSE 0)
    IN  Message(Header(Uint16(queryID), flags, 1, 0, 0, 0),
                << Question(StringToLabels(domain), qtype, ClassIN) >>,
                << >>, << >>, << >>)

---------------------------------------------------------------------------
(* Inputs: the configurations, the domains asked for, and the bytes a      *)
(* peer may put on the wire.                                               *)

MaxQuestions == 1   \* questions in a generated response
MaxRecords == 1     \* resource records in a generated response
MaxOverCount == 1   \* how far a declared count may exceed what is present

Protocols == {"udp", "tcp"}

\* none, and the 3 of DefaultConfig
RetryCounts == {0, 3}

Configs == [Protocol : Protocols, RecursionDesired : BOOLEAN, RetryCount : RetryCounts]

QueryIDs == {48879, 4660}      \* 0xBEEF, 0x1234

QTypes == {TypeA, TypeAAAA}

LetterA == 97

\* n times the letter a
Run(n) == [i \in 1..n |-> LetterA]

DomainA == << LetterA >>                          \* "a"
DomainAbcCom == << 97, 98, 99, Dot, 99, 111, 109 >>   \* "abc.com"
DomainADot == << LetterA, Dot >>                  \* "a."

\* four labels of 63 characters: 255 characters in all
DomainTooLong ==
    Run(MaxLabelLen) \o << Dot >> \o Run(MaxLabelLen) \o << Dot >>
    \o Run(MaxLabelLen) \o << Dot >> \o Run(MaxLabelLen)

ValidDomains == {DomainA, DomainAbcCom, DomainADot, Run(MaxLabelLen)}

\* "", "a..b", "-a", "a_b", "a-", ".", a label of 64 characters, 255 characters
InvalidDomains ==
    {<< >>, << LetterA, Dot, Dot, 98 >>, << Hyphen, LetterA >>, << LetterA, 95, 98 >>,
     << LetterA, Hyphen >>, << Dot >>, Run(MaxLabelLen + 1), DomainTooLong}

Domains == ValidDomains \cup InvalidDomains

\* a compression pointer to target
Ptr(target) == << PointerFlag + ((target \div 256) % 64), target % 256 >>

\* encodings of a name that starts at offset off of the message
PeerNames(off) ==
    {<< 0 >>,                        \* the root
     << 1, LetterA, 0 >>,            \* a.
     Ptr(HeaderSize),                \* pointer to the first name (to itself at 12)
     Ptr(off),                       \* pointer to itself
     Ptr(off + 6),                   \* pointer forward, to the next entry
     << 1, LetterA >> \o Ptr(HeaderSize),
     Ptr(PointerMask)}               \* pointer past any buffer

PeerRecordNames(off) == {<< 0 >>, Ptr(HeaderSize), Ptr(off)}

Address4 == << 93, 184, 216, 34 >>
Address16 == << 32, 1, 13, 184 >> \o Zeros(11) \o << 1 >>   \* 2001:db8::1

\* <<type, declared RDLength, RDATA bytes>> for a record whose RDATA starts at off
PeerRData(off) ==
    {<< TypeA, 4, Address4 >>,
     << TypeA, 2, << 1, 2 >> >>,
     << TypeA, 9, << 1, 2 >> >>,
     << TypeTXT, 2, << 1, 2 >> >>,
     << TypeNS, 3, << 1, LetterA, 0 >> >>,
     << TypeNS, 2, Ptr(HeaderSize) >>,
     << TypeNS, 4, << 1, LetterA >> \o Ptr(HeaderSize) >>,
     << TypeNS, 4, << 1, LetterA, 0, 7 >> >>,
     << TypeNS, 2, << 5, LetterA >> >>,
     << TypeNS, 2, Ptr(off) >>,
     << TypeAAAA, 16, Address16 >>,
     << TypeAAAA, 16, IPv4(93, 184, 216, 34) >>}

PeerTTL == 300

\* a 16-bit and a 32-bit field as the peer writes them (RFC 1035: big-endian)
Wire16(v) == << v \div 256, v % 256 >>
Wire32(v) == << v \div 16777216, (v \div 65536) % 256, (v \div 256) % 256, v % 256 >>

PeerQuestion(name) == name \o Wire16(TypeA) \o Wire16(ClassIN)

\* a record as the peer writes it, with the four bytes of its TTL field
PeerRecordTTL(name, rd, ttl) ==
    name \o Wire16(rd[1]) \o Wire16(ClassIN) \o ttl \o Wire16(rd[2]) \o rd[3]

PeerRecord(name, rd) == PeerRecordTTL(name, rd, Wire32(PeerTTL))

\* the RDATA forms of the responses that are also cut short
PeerPlainRData(off) ==
    {<< TypeA, 4, Address4 >>,
     << TypeA, 9, << 1, 2 >> >>,
     << TypeNS, 2, Ptr(HeaderSize) >>}

\* the k-th question of a response, starting at offset off
QuestionChoices(off, k) ==
    {PeerQuestion(n) : n \in IF k = 1 THEN PeerNames(off)
                                      ELSE {<< 0 >>, Ptr(HeaderSize)}}

\* the k-th record of a response, starting at offset off
RecordChoices(off, k, rich) ==
    LET names == IF k = 1 /\ rich THEN PeerRecordNames(off) ELSE {Ptr(HeaderSize)}
        rdatas(o) == IF k = 1 /\ rich THEN PeerRData(o) ELSE PeerPlainRData(o)
    IN  UNION {{PeerRecord(n, rd) : rd \in rdatas(off + Len(n) + 10)} : n \in names}
        \cup (IF k = 1 /\ rich           \* TTL fields with the top bit set
              THEN {PeerRecordTTL(n, << TypeA, 4, Address4 >>, t)
                    : n \in names, t \in {<< 255, 255, 255, 255 >>, << 128, 0, 0, 0 >>}}
              ELSE {})

RECURSIVE PeerQuestionSeqs(_, _, _)
\* questions k..n laid out from offset off
PeerQuestionSeqs(off, k, n) ==
    IF k > n THEN {<< >>}
    ELSE UNION {{q \o rest : rest \in PeerQuestionSeqs(off + Len(q), k + 1, n)}
                : q \in QuestionChoices(off, k)}

RECURSIVE PeerRecordSeqs(_, _, _, _)
\* records k..n laid out from offset off
PeerRecordSeqs(off, k, n, rich) ==
    IF k > n THEN {<< >>}
    ELSE UNION {{r \o rest : rest \in PeerRecordSeqs(off + Len(r), k + 1, n, rich)}
                : r \in RecordChoices(off, k, rich)}

\* what follows the header: nq questions, then nr records
PeerBodies(rich) ==
    UNION {UNION {UNION {{[nq |-> nq, nr |-> nr, body |-> qs \o rs]
                          : rs \in PeerRecordSeqs(HeaderSize + Len(qs), 1, nr, rich)}
                         : qs \in PeerQuestionSeqs(HeaderSize, 1, nq)}
                  : nr \in 0..MaxRecords}
           : nq \in 0..MaxQuestions}

\* the <<ANCount, NSCount, ARCount>> a header may declare over nr records
PeerCounts(nr, rich) ==
    {<< nr + over, 0, 0 >> : over \in 0..MaxOverCount}
    \cup (IF rich /\ nr > 0 THEN {<< 0, nr, 0 >>, << 0, 0, nr >>} ELSE {})

PeerFlags == HeaderQRResponse + HeaderRD + HeaderRA

PeerHeader(id, qd, c) ==
    Wire16(id) \o Wire16(PeerFlags) \o Wire16(qd)
    \o Wire16(c[1]) \o Wire16(c[2]) \o Wire16(c[3])

PeerMessages(id, rich) ==
    UNION {{PeerHeader(id, b.nq, c) \o b.body : c \in PeerCounts(b.nr, rich)}
           : b \in PeerBodies(rich)}

Prefixes(b) == {SubSeq(b, 1, k) : k \in 0..Len(b)}

\* an ID other than id
OtherID(id) == (id + 1) % 65536

\* the DNS messages, whole or cut short, a peer may answer a query id with
PeerPayloads(id) ==
    PeerMessages(id, TRUE)
    \cup UNION {Prefixes(m) : m \in PeerMessages(id, FALSE)}
    \cup PeerMessages(OtherID(id), FALSE)

\* a payload behind a stream length prefix that declares length bytes
PeerFrame(payload, length) == Wire16(length % 65536) \o payload

\* everything conn.Read may deliver in answer to query id
PeerBuffers(id, protocol) ==
    IF protocol = "tcp"
    THEN {PeerFrame(p, Len(p)) : p \in PeerPayloads(id)}
         \cup {<< >>, << 0 >>}
         \cup UNION {{PeerFrame(m, Len(m) + 1), PeerFrame(m, Len(m) - 1),
                      SubSeq(PeerFrame(m, Len(m)), 1, Len(m) + 1)}
                     : m \in PeerMessages(id, FALSE)}
    ELSE PeerPayloads(id)


\* the question section of a query as a peer echoes it
EchoQuestion(qb, protocol) ==
    IF protocol = "tcp" THEN SubSeq(qb, HeaderSize + 3, Len(qb))
    ELSE SubSeq(qb, HeaderSize + 1, Len(qb))

\* the answers a name server may give to the query whose bytes are qb
ClientPayloads(id, qb, protocol) ==
    LET q == EchoQuestion(qb, protocol)
        answer == PeerRecord(Ptr(HeaderSize), << TypeA, 4, Address4 >>)
        full(i) == PeerHeader(i, 1, << 1, 0, 0 >>) \o q \o answer
        referral == PeerHeader(id, 1, << 1, 1, 1 >>) \o q \o answer
                    \o PeerRecord(Ptr(HeaderSize), << TypeNS, 2, Ptr(HeaderSize) >>)
                    \o PeerRecord(<< 0 >>, << TypeAAAA, 16, Address16 >>)
    IN  {full(id),
         referral,
         full(OtherID(id)),
         SubSeq(full(id), 1, Len(full(id)) - 2),
         PeerHeader(id, 1, << 0, 0, 0 >>) \o PeerQuestion(Ptr(HeaderSize)),
         PeerHeader(id, 0, << 0, 0, 0 >>)}

\* everything conn.Read may deliver to the client of the full run
ClientResponses(id, qb, protocol) ==
    IF protocol = "tcp"
    THEN {qb} \cup {PeerFrame(p, Len(p)) : p \in ClientPayloads(id, qb, protocol)}
         \cup {<< 0 >>, PeerFrame(PeerHeader(id, 0, << 0, 0, 0 >>), HeaderSize + 1)}
    ELSE {qb} \cup ClientPayloads(id, qb, protocol)

\* the messages handed to Message.ToBytes in the encode/decode round trip
CodecNames == {StringToLabels(DomainA), StringToLabels(<< >>)}

CodecRData ==
    {ARecord(Address4),
     AAAARecord(Address16),
     NewNSRecord(StringToLabels(DomainAbcCom)),
     NewGenericRecord(TypeTXT, << 1, 2 >>),
     GenericRecord(TypeTXT, << 1, 2 >>),
     GenericRecord(TypeA, << 1, 2 >>)}

\* the record type a data variant is stored under; the last record is what
\* parseResourceRecord returns for NS data sent as a 2-byte pointer
CodecRecords ==
    {ResourceRecord(n, rd.RecordType, ClassIN, PeerTTL, Len(RDataBytes(rd)), rd)
     : n \in CodecNames, rd \in CodecRData}
    \cup {ResourceRecord(StringToLabels(DomainA), TypeNS, ClassIN, PeerTTL, 2,
                         NewNSRecord(StringToLabels(DomainA)))}

\* a message with an entry in every section
CodecReferral(id) ==
    Message(Header(id, PeerFlags, 1, 1, 1, 1),
            << Question(StringToLabels(DomainAbcCom), TypeA, ClassIN) >>,
            << ResourceRecord(StringToLabels(DomainAbcCom), TypeA, ClassIN, PeerTTL, 4,
                              ARecord(Address4)) >>,
            << ResourceRecord(StringToLabels(DomainA), TypeNS, ClassIN, PeerTTL, 3,
                              NewNSRecord(StringToLabels(DomainA))) >>,
            << ResourceRecord(StringToLabels(DomainA), TypeAAAA, ClassIN, PeerTTL, 16,
                              AAAARecord(Address16)) >>)

CodecQuestions == {Question(n, TypeA, ClassIN) : n \in CodecNames}

SeqsUpTo(S, n) == UNION {[1..k -> S] : k \in 0..n}

CodecMessages ==
    UNION {UNION {{Message(Header(id, PeerFlags, Len(qs), a, b - a, Len(rs) - b),
                           qs, SubSeq(rs, 1, a), SubSeq(rs, a + 1, b),
                           SubSeq(rs, b + 1, Len(rs)))
                   : a \in {x \in 0..Len(rs) : x <= b}, id \in QueryIDs}
                  : b \in 0..Len(rs)}
           : qs \in SeqsUpTo(CodecQuestions, MaxQuestions),
             rs \in SeqsUpTo(CodecRecords, MaxRecords)}
    \cup {buildQuery(d, TypeA, id, rd) : d \in ValidDomains, id \in QueryIDs, rd \in BOOLEAN}
    \cup {CodecReferral(id) : id \in QueryIDs}
    \cup {Message(Header(id, PeerFlags, 1, 0, 0, 0),
                  << Question(StringToLabels(d), TypeA, ClassIN) >>,
                  << >>, << >>, << >>)
          : d \in {Run(MaxLabelLen + 1), DomainTooLong}, id \in QueryIDs}
    \cup {Message(Header(id, PeerFlags, 0, 1, 0, 0), << >>,
                  << ResourceRecord(StringToLabels(d), TypeA, ClassIN, PeerTTL, 4,
                                    ARecord(Address4)) >>,
                  << >>, << >>)
          : d \in {Run(MaxLabelLen + 1), DomainTooLong}, id \in QueryIDs}

---------------------------------------------------------------------------
(* The client: Client.Query and, inside it, sendQuery.                     *)

NoResponse == ResponseResult("none", NilMessage, "")

NoTraffic == [dials |-> 0, writes |-> 0, reads |-> 0]

\* no name converted yet
NoName == [labels |-> << >>, text |-> << >>]

Init ==
    /\ config \in Configs
    /\ pc = "idle"
    /\ asked = << >>
    /\ query = NilMessage
    /\ queryBytes = << >>
    /\ responseBytes = << >>
    /\ response = NoResponse
    /\ net = NoTraffic
    /\ naming = NoName
    /\ calls = << >>

\* Client.Query up to net.DialTimeout: ValidateDomain, buildQuery,
\* query.ToBytes and the stream length prefix
Query(d, qtype, queryID) ==
    /\ pc = "idle"
    /\ asked' = d
    /\ IF ~ValidateDomain(d)
       THEN /\ response' = ResponseErr("invalid domain")
            /\ pc' = "done"
            /\ UNCHANGED <<query, queryBytes>>
       ELSE /\ query' = buildQuery(d, qtype, queryID, config.RecursionDesired)
            /\ queryBytes' = Frame(ToBytes(query'), config.Protocol)
            /\ pc' = "dial"
            /\ UNCHANGED response
    /\ UNCHANGED <<config, responseBytes, net, naming, calls>>

\* sendQuery ends with this error
Fail(err) ==
    /\ response' = ResponseErr(err)
    /\ pc' = "done"

\* net.DialTimeout
Dial ==
    /\ pc = "dial"
    /\ net' = [net EXCEPT !.dials = @ + 1]
    /\ \/ Fail("failed to connect to DNS server")
       \/ pc' = "write" /\ UNCHANGED response
    /\ UNCHANGED <<config, asked, query, queryBytes, responseBytes, naming, calls>>

\* conn.SetWriteDeadline, conn.Write and conn.SetReadDeadline
Write ==
    /\ pc = "write"
    /\ \/ Fail("failed to set write deadline") /\ UNCHANGED net
       \/ /\ net' = [net EXCEPT !.writes = @ + 1]
          /\ \/ Fail("failed to write query")
             \/ Fail("incomplete write")
             \/ Fail("failed to set read deadline")
             \/ pc' = "read" /\ UNCHANGED response
    /\ UNCHANGED <<config, asked, query, queryBytes, responseBytes, naming, calls>>

\* conn.Read fails
ReadError ==
    /\ pc = "read"
    /\ net' = [net EXCEPT !.reads = @ + 1]
    /\ Fail("failed to read response")
    /\ UNCHANGED <<config, asked, query, queryBytes, responseBytes, naming, calls>>

\* conn.Read delivers buf, and parseResponse decodes it
Receive(buf) ==
    /\ pc = "read"
    /\ net' = [net EXCEPT !.reads = @ + 1]
    /\ responseBytes' = buf
    /\ response' = parseResponse(buf, query.Header.ID, config.Protocol)
    /\ pc' = "done"
    /\ UNCHANGED <<config, asked, query, queryBytes, naming, calls>>

Read ==
    /\ pc = "read"
    /\ \E buf \in ClientResponses(query.Header.ID, queryBytes, config.Protocol) :
          Receive(buf)

Next ==
    \/ \E d \in Domains, qtype \in QTypes, queryID \in QueryIDs : Query(d, qtype, queryID)
    \/ Dial
    \/ Write
    \/ ReadError
    \/ Read

Spec == Init /\ [][Next]_vars

---------------------------------------------------------------------------
(* The decoder alone: the client has sent a query and reads whatever the   *)
(* peer chose to send.                                                     *)

InitDecode ==
    /\ config \in {c \in Configs : c.RecursionDesired /\ c.RetryCount = 3}
    /\ pc = "read"
    /\ asked = DomainA
    /\ query = buildQuery(DomainA, TypeA, 48879, TRUE)     \* the ID drawn: 0xBEEF
    /\ queryBytes = Frame(ToBytes(query), config.Protocol)
    /\ responseBytes = << >>
    /\ response = NoResponse
    /\ net = [dials |-> 1, writes |-> 1, reads |-> 0]
    /\ naming = NoName
    /\ calls = << >>

ReadPeer ==
    /\ pc = "read"
    /\ \E buf \in PeerBuffers(query.Header.ID, config.Protocol) : Receive(buf)

NextDecode == ReadPeer

SpecDecode == InitDecode /\ [][NextDecode]_vars

---------------------------------------------------------------------------
(* The codec round trip: a message is encoded and the bytes come back.     *)

InitCodec ==
    /\ config \in {c \in Configs : c.RecursionDesired}
    /\ pc = "encode"
    /\ asked = << >>
    /\ query \in CodecMessages
    /\ queryBytes = << >>
    /\ responseBytes = << >>
    /\ response = NoResponse
    /\ net = NoTraffic
    /\ naming = NoName
    /\ calls = << >>

\* Message.ToBytes and the length prefix of the transport
Encode ==
    /\ pc = "encode"
    /\ queryBytes' = Frame(ToBytes(query), config.Protocol)
    /\ pc' = "read"
    /\ UNCHANGED <<config, asked, query, responseBytes, response, net, naming, calls>>

\* the bytes written come back unchanged and are decoded
Loopback == pc = "read" /\ Receive(queryBytes)

NextCodec == Encode \/ Loopback

SpecCodec == InitCodec /\ [][NextCodec]_vars

---------------------------------------------------------------------------
(* Names: a domain string is turned into labels and the labels back into   *)
(* a string.                                                               *)

MaxNameLen == 4     \* characters of an enumerated domain string

NameAlphabet == {LetterA, 98, Dot}

\* labels at and just past the limits of a label and of the length byte
LongNames ==
    UNION {{Run(n), Run(n) \o << Dot >>, << LetterA, Dot >> \o Run(n)}
           : n \in {MaxLabelLen, MaxLabelLen + 1, 255, 256}}
    \* the longest domain of 63-character labels ValidateDomain lets through
    \* (253 characters), and the same with two more characters
    \cup {SubSeq(DomainTooLong, 1, MaxDomainLen), DomainTooLong}

NameStrings == SeqsUpTo(NameAlphabet, MaxNameLen) \cup LongNames

InitLabels ==
    /\ config \in {c \in Configs : c.RecursionDesired /\ c.Protocol = "udp"}
    /\ pc = "labels"
    /\ asked \in NameStrings
    /\ query = NilMessage
    /\ queryBytes = << >>
    /\ responseBytes = << >>
    /\ response = NoResponse
    /\ net = NoTraffic
    /\ naming = NoName
    /\ calls = << >>

\* StringToLabels(asked)
ToLabels ==
    /\ pc = "labels"
    /\ naming' = [naming EXCEPT !.labels = StringToLabels(asked)]
    /\ pc' = "string"
    /\ UNCHANGED <<config, asked, query, queryBytes, responseBytes, response, net, calls>>

\* LabelsToString of the labels just made
BackToString ==
    /\ pc = "string"
    /\ naming' = [naming EXCEPT !.text = LabelsToString(naming.labels)]
    /\ pc' = "named"
    /\ UNCHANGED <<config, asked, query, queryBytes, responseBytes, response, net, calls>>

NextLabels == ToLabels \/ BackToString

SpecLabels == InitLabels /\ [][NextLabels]_vars

---------------------------------------------------------------------------
(* Concurrent calls: several goroutines each run one parseResponse or one  *)
(* Message.ToBytes on a buffer or message of their own.  A call's locals   *)
(* (data, index, i, message, buf) are one record of calls; a step is the   *)
(* header part of the call or one turn of one of its section loops.        *)

MaxCalls == 2       \* calls running at once

Calls == 1..MaxCalls

\* what the calls are handed: buffers to decode, messages to encode
CallInputs(protocol) ==
    LET id == 48879
        question == PeerQuestion(<< 1, LetterA, 0 >>)
        answer == PeerRecord(Ptr(HeaderSize), << TypeA, 4, Address4 >>)
        whole == PeerHeader(id, 1, << 1, 0, 0 >>) \o question \o answer
        cut == SubSeq(whole, 1, Len(whole) - 2)
        cyclic == PeerHeader(id, 1, << 0, 0, 0 >>) \o PeerQuestion(Ptr(HeaderSize))
        decodes == {[op |-> "decode", input |-> Frame(b, protocol), id |-> id]
                    : b \in {whole, cut, cyclic}}
        encodes == {[op |-> "encode", input |-> m, id |-> id]
                    : m \in {buildQuery(DomainA, TypeA, id, TRUE),
                             Message(Header(id, PeerFlags, 0, 1, 0, 0), << >>,
                                     << ResourceRecord(StringToLabels(DomainA), TypeA,
                                                       ClassIN, PeerTTL, 4,
                                                       ARecord(Address4)) >>,
                                     << >>, << >>)}}
    IN  decodes \cup encodes

\* what a call has returned: a Message and an error, or bytes
CallResult(kind, msg, bytes, err) ==
    [kind |-> kind, msg |-> msg, bytes |-> bytes, err |-> err]

\* a call about to run
NewCall(in) ==
    [op |-> in.op, input |-> in.input, id |-> in.id, stage |-> "start",
     data |-> << >>, index |-> 0, i |-> 0, msg |-> NilMessage, buf |-> << >>,
     out |-> CallResult("none", NilMessage, << >>, "")]

\* the call returns
Return(c, kind, msg, bytes, err) ==
    [c EXCEPT !.stage = "returned", !.out = CallResult(kind, msg, bytes, err)]

\* the process died under the call: a fatal error ends every goroutine
Killed(c) == [c EXCEPT !.stage = "killed"]

\* the section loop that follows a stage, and the count that bounds a loop
NextStage(stage) ==
    CASE stage = "start" -> "Question"
      [] stage = "Question" -> "Answer"
      [] stage = "Answer" -> "Authority"
      [] stage = "Authority" -> "Additional"
      [] OTHER -> "returned"

CountOf(h, stage) ==
    CASE stage = "Question" -> h.QDCount
      [] stage = "Answer" -> h.ANCount
      [] stage = "Authority" -> h.NSCount
      [] OTHER -> h.ARCount

\* parseResponse up to the first loop: length prefix, header, ID, make
DecodeStart(c, protocol) ==
    LET u == Unframe(c.input, protocol)
    IN  IF ~u.ok THEN Return(c, "err", NilMessage, << >>, u.err)
        ELSE IF Len(u.data) < HeaderSize
             THEN Return(c, "err", NilMessage, << >>, "DNS response too short")
        ELSE IF parseHeader(u.data, 0).ID # c.id
             THEN Return(c, "err", NilMessage, << >>, "response ID does not match query ID")
        ELSE [c EXCEPT !.stage = "Question", !.data = u.data, !.index = HeaderSize,
                       !.i = 0,
                       !.msg = Message(parseHeader(u.data, 0),
                                       [j \in 1..parseHeader(u.data, 0).QDCount |-> NoQuestion],
                                       [j \in 1..parseHeader(u.data, 0).ANCount |-> NoRecord],
                                       [j \in 1..parseHeader(u.data, 0).NSCount |-> NoRecord],
                                       [j \in 1..parseHeader(u.data, 0).ARCount |-> NoRecord])]

\* what one turn of a loop of parseResponse makes of the entry e it parsed
DecodeTurn(c, e, item) ==
    IF e.kind # "ok" THEN Return(c, e.kind, NilMessage, << >>, e.err)
    ELSE [c EXCEPT !.msg[c.stage][c.i + 1] = item, !.index = e.index, !.i = c.i + 1]

\* the loop test of the current section and, when it passes, one turn
DecodeEntry(c) ==
    IF ~(c.i < CountOf(c.msg.Header, c.stage)) THEN
        IF c.stage = "Additional" THEN Return(c, "ok", c.msg, << >>, "")
        ELSE [c EXCEPT !.stage = NextStage(c.stage), !.i = 0]
    ELSE IF c.stage = "Question"
         THEN DecodeTurn(c, parseQuestion(c.data, c.index),
                         parseQuestion(c.data, c.index).question)
         ELSE DecodeTurn(c, parseResourceRecord(c.data, c.index),
                         parseResourceRecord(c.data, c.index).rr)

\* Message.ToBytes: the header, then one entry of the current section
EncodeEntry(c) ==
    IF c.stage = "start"
    THEN [c EXCEPT !.stage = "Question", !.i = 0, !.buf = HeaderToBytes(c.input.Header)]
    ELSE IF ~(c.i < Len(c.input[c.stage])) THEN
        IF c.stage = "Additional" THEN Return(c, "ok", NilMessage, c.buf, "")
        ELSE [c EXCEPT !.stage = NextStage(c.stage), !.i = 0]
    ELSE [c EXCEPT !.i = c.i + 1,
                   !.buf = c.buf \o (IF c.stage = "Question"
                                     THEN QuestionToBytes(c.input[c.stage][c.i + 1])
                                     ELSE ResourceRecordToBytes(c.input[c.stage][c.i + 1]))]

\* the next step of a call, from its own locals and the client's protocol
CallStep(c, protocol) ==
    IF c.op = "encode" THEN EncodeEntry(c)
    ELSE IF c.stage = "start" THEN DecodeStart(c, protocol)
    ELSE DecodeEntry(c)

InitConcurrent ==
    /\ config \in {c \in Configs : c.RecursionDesired /\ c.RetryCount = 0}
    /\ pc = "calls"
    /\ asked = << >>
    /\ query = NilMessage
    /\ queryBytes = << >>
    /\ responseBytes = << >>
    /\ response = NoResponse
    /\ net = NoTraffic
    /\ naming = NoName
    /\ calls \in [Calls -> {NewCall(in) : in \in CallInputs(config.Protocol)}]

\* the goroutine of call t takes its next step; a step that overflows the
\* stack is a fatal error of the process and ends the calls still running
Step(t) ==
    /\ pc = "calls"
    /\ calls[t].stage \notin {"returned", "killed"}
    /\ IF Crashed(CallStep(calls[t], config.Protocol).out)
       THEN calls' = [u \in Calls |->
                        IF u = t THEN CallStep(calls[t], config.Protocol)
                        ELSE IF calls[u].stage = "returned" THEN calls[u]
                        ELSE Killed(calls[u])]
       ELSE calls' = [calls EXCEPT ![t] = CallStep(calls[t], config.Protocol)]
    /\ UNCHANGED <<config, pc, asked, query, queryBytes, responseBytes, response, net, naming>>

NextConcurrent == \E t \in Calls : Step(t)

SpecConcurrent == InitConcurrent /\ [][NextConcurrent]_vars

---------------------------------------------------------------------------
(* Properties.                                                             *)

\* the 16-bit big-endian value at positions i, i+1 (1-based) of b
Be16(b, i) == b[i] * 256 + b[i + 1]

\* the received buffer carries a well-formed stream prefix, or is a datagram
FrameAgrees ==
    \/ config.Protocol = "udp"
    \/ /\ Len(responseBytes) >= 2
       /\ Be16(responseBytes, 1) = Len(responseBytes) - 2

\* the DNS message inside the received buffer
Payload ==
    IF config.Protocol = "tcp"
    THEN SubSeq(responseBytes, 3, Len(responseBytes))
    ELSE responseBytes

\* C1: whatever bytes were received, over tcp or udp, parseResponse ends
\* with a Message or with an error value: it never reads outside the buffer
\* and never brings the process down.
C1_NeverCrashes == pc = "done" => response.kind \in {"ok", "err"}

\* C2: name decoding ends, with labels or with an error, from every start
\* index of every received buffer, also when its compression pointers point
\* at themselves or at each other.
C2_ParseLabelsTerminates ==
    pc = "done" =>
        \A i \in 0..Len(responseBytes) :
            parseLabels(responseBytes, i).kind \in {"ok", "err"}

\* C3: a compression pointer whose target offset is not below its own
\* offset is not followed: decoding at it fails with the invalid-pointer
\* error.
C3_ForwardPointerRejected ==
    pc = "done" =>
        \A p \in 0..(Len(responseBytes) - 2) :
            LET b == responseBytes[p + 1]
                target == (b - PointerFlag) * 256 + responseBytes[p + 2]
            IN  (b >= PointerFlag /\ target >= p) =>
                    /\ parseLabels(responseBytes, p).kind = "err"
                    /\ parseLabels(responseBytes, p).err = "invalid compression pointer"

SameRecord(a, b) ==
    /\ a.Name = b.Name
    /\ a.Type = b.Type
    /\ a.Class = b.Class
    /\ a.TTL = b.TTL
    /\ a.RDLength = b.RDLength
    /\ RDataBytes(a.RData) = RDataBytes(b.RData)

SameRecords(as, bs) ==
    /\ Len(as) = Len(bs)
    /\ \A i \in 1..Len(as) : SameRecord(as[i], bs[i])

SameMessage(a, b) ==
    /\ a.nil = b.nil
    /\ a.Header = b.Header
    /\ a.Question = b.Question
    /\ SameRecords(a.Answer, b.Answer)
    /\ SameRecords(a.Authority, b.Authority)
    /\ SameRecords(a.Additional, b.Additional)

\* C4: decoding the bytes ToBytes produced for a message (over udp, with
\* the message's own ID expected) succeeds and gives back the same header,
\* questions and records, RDATA bytes included.
C4_RoundTrip ==
    (pc = "done" /\ config.Protocol = "udp") =>
        /\ response.kind = "ok"
        /\ SameMessage(response.msg, query)

CountsMatch(m) ==
    /\ Len(m.Question) = m.Header.QDCount
    /\ Len(m.Answer) = m.Header.ANCount
    /\ Len(m.Authority) = m.Header.NSCount
    /\ Len(m.Additional) = m.Header.ARCount

\* C5: in the query buildQuery made and in every Message parseResponse
\* returned, each header count is the length of its section; the query has
\* counts 1, 0, 0, 0 and exactly one Question.
C5_CountsMatchSections ==
    /\ ~query.nil =>
          /\ CountsMatch(query)
          /\ Len(query.Question) = 1
          /\ query.Header.QDCount = 1
          /\ query.Header.ANCount = 0
          /\ query.Header.NSCount = 0
          /\ query.Header.ARCount = 0
    /\ response.kind = "ok" => CountsMatch(response.msg)

C5_Witness ==
    /\ pc = "done"
    /\ response.kind = "ok"
    /\ Len(response.msg.Question) = 1
    /\ Len(response.msg.Answer) = 1
    /\ Len(response.msg.Authority) = 1
    /\ Len(response.msg.Additional) = 1
    /\ Len(query.Question) = 1

RECURSIVE NameFieldEnd(_, _)
\* where the name field that starts at offset i ends on the wire (a pointer
\* closes the field after 2 bytes), or -1 when the buffer ends first
NameFieldEnd(b, i) ==
    IF i >= Len(b) THEN -1
    ELSE IF b[i + 1] >= PointerFlag THEN (IF i + 2 > Len(b) THEN -1 ELSE i + 2)
    ELSE IF b[i + 1] = 0 THEN i + 1
    ELSE IF i + 1 + b[i + 1] > Len(b) THEN -1
    ELSE NameFieldEnd(b, i + 1 + b[i + 1])

\* where the question at offset i ends, or -1
QuestionFieldEnd(b, i) ==
    LET e == NameFieldEnd(b, i)
    IN  IF e = -1 \/ e + 4 > Len(b) THEN -1 ELSE e + 4

\* where the record at offset i ends, or -1
RecordFieldEnd(b, i) ==
    LET e == NameFieldEnd(b, i)
    IN  IF e = -1 \/ e + 10 > Len(b) THEN -1
        ELSE IF e + 10 + Be16(b, e + 9) > Len(b) THEN -1
        ELSE e + 10 + Be16(b, e + 9)

RECURSIVE EntriesEnd(_, _, _, _)
\* where nq questions and then nr records, laid out from offset i, end, or -1
EntriesEnd(b, i, nq, nr) ==
    IF i = -1 THEN -1
    ELSE IF nq > 0 THEN EntriesEnd(b, QuestionFieldEnd(b, i), nq - 1, nr)
    ELSE IF nr > 0 THEN EntriesEnd(b, RecordFieldEnd(b, i), nq, nr - 1)
    ELSE i

\* the buffer ends before everything its header declares
Truncated(b) ==
    \/ Len(b) < HeaderSize
    \/ EntriesEnd(b, HeaderSize, Be16(b, 5), Be16(b, 7) + Be16(b, 9) + Be16(b, 11)) = -1

\* C6: a buffer that ends before everything its header declares makes
\* parseResponse return an error and a nil Message, and an error never comes
\* with a Message.
C6_TruncationIsAnError ==
    /\ (pc = "done" /\ FrameAgrees /\ Truncated(Payload)) =>
           (response.kind = "err" /\ response.msg.nil)
    /\ response.kind = "err" => response.msg.nil

\* C7: over tcp the bytes written are the 2-byte big-endian count of the
\* message bytes followed by the message, and stripping the prefix gives the
\* message back; over udp the message is written and read as it is.
C7_FramingRoundTrip ==
    ~query.nil =>
        LET m == ToBytes(query)
            u == Unframe(queryBytes, config.Protocol)
        IN  /\ u.ok
            /\ u.data = m
            /\ IF config.Protocol = "tcp"
               THEN /\ Len(queryBytes) = Len(m) + 2
                    /\ Be16(queryBytes, 1) = Len(m)
                    /\ SubSeq(queryBytes, 3, Len(queryBytes)) = m
               ELSE queryBytes = m

C7_Witness ==
    /\ config.Protocol = "tcp"
    /\ pc = "done"
    /\ Len(ToBytes(query)) = 25
    /\ Len(queryBytes) = 27
    /\ queryBytes[1] = 0
    /\ queryBytes[2] = 25
    /\ responseBytes = queryBytes
    /\ response.kind = "ok"

\* C8: over tcp, a received buffer shorter than 2 bytes, or one whose length
\* prefix is not the number of bytes after it, ends parseResponse with a
\* framing error before anything is decoded.
C8_BadFrameIsAnError ==
    (pc = "done" /\ config.Protocol = "tcp" /\ ~FrameAgrees) =>
        /\ response.kind = "err"
        /\ response.msg.nil
        /\ response.err \in {"TCP response too short for length prefix",
                             "TCP length mismatch"}

C8_Witness ==
    /\ pc = "done"
    /\ config.Protocol = "tcp"
    /\ Len(responseBytes) >= HeaderSize + 2
    /\ Be16(responseBytes, 1) = Len(responseBytes) - 1
    /\ Be16(responseBytes, 3) = query.Header.ID
    /\ response.err = "TCP length mismatch"

\* C9: a Message Query returns carries the ID of the query, which is the
\* first two bytes of the response message read big-endian; a response
\* message with another ID yields an error and no Message.
C9_ResponseIDMatchesQuery ==
    /\ response.kind = "ok" =>
          /\ response.msg.Header.ID = query.Header.ID
          /\ response.msg.Header.ID = Be16(Payload, 1)
    /\ (pc = "done" /\ FrameAgrees /\ Len(Payload) >= HeaderSize
        /\ Be16(Payload, 1) # query.Header.ID) =>
           (response.kind = "err" /\ response.msg.nil)

C9_Witness ==
    /\ pc = "done"
    /\ FrameAgrees
    /\ Len(Payload) > HeaderSize
    /\ Be16(Payload, 1) # query.Header.ID
    /\ response.err = "response ID does not match query ID"

\* values at the byte boundaries of a 16-bit header field
HeaderEdges == {0, 255, 256, 48879, 65535}

\* headers whose six fields differ from one another
EdgeHeaders ==
    {Header(a, b, (a + 1) % 65536, (b + 1) % 65536, (a + 2) % 65536, (b + 2) % 65536)
     : a \in HeaderEdges, b \in HeaderEdges}

\* C10: Header.toBytes gives 12 bytes, the six fields in the order ID,
\* Flags, QDCount, ANCount, NSCount, ARCount, each big-endian, and reading
\* them back as parseResponse does gives the same six values.
C10_HeaderLayout ==
    LET h == query.Header
        b == HeaderToBytes(h)
    IN  /\ Len(b) = 12
        /\ \A i \in 1..Len(b) : b[i] \in 0..255
        /\ Be16(b, 1) = h.ID
        /\ Be16(b, 3) = h.Flags
        /\ Be16(b, 5) = h.QDCount
        /\ Be16(b, 7) = h.ANCount
        /\ Be16(b, 9) = h.NSCount
        /\ Be16(b, 11) = h.ARCount
        /\ parseHeader(b, 0) = h
        /\ response.kind = "ok" => response.msg.Header = h
        /\ \A e \in EdgeHeaders :
              /\ Len(HeaderToBytes(e)) = 12
              /\ HeaderToBytes(e) = PutUint16(e.ID) \o PutUint16(e.Flags)
                                    \o PutUint16(e.QDCount) \o PutUint16(e.ANCount)
                                    \o PutUint16(e.NSCount) \o PutUint16(e.ARCount)
              /\ Be16(HeaderToBytes(e), 1) = e.ID
              /\ Be16(HeaderToBytes(e), 11) = e.ARCount
              /\ parseHeader(HeaderToBytes(e), 0) = e

C10_Witness ==
    /\ pc = "done"
    /\ query.Header = Header(48879, HeaderRD, 1, 0, 0, 0)
    /\ HeaderToBytes(query.Header) = << 190, 239, 1, 0, 0, 1, 0, 0, 0, 0, 0, 0 >>
    /\ response.kind = "ok"
    /\ response.msg.Header = query.Header

\* D, with one trailing dot removed, has no empty label
NoEmptyLabel(d) ==
    LET t == IF Len(d) > 0 /\ d[Len(d)] = Dot THEN SubSeq(d, 1, Len(d) - 1) ELSE d
    IN  \/ t = << >>
        \/ /\ t[1] # Dot
           /\ t[Len(t)] # Dot
           /\ \A i \in 1..(Len(t) - 1) : ~(t[i] = Dot /\ t[i + 1] = Dot)

\* C11: for a domain string without an empty label, LabelsToString of
\* StringToLabels gives the string back, less at most one trailing dot.
C11_NameRoundTrip ==
    (pc = "named" /\ NoEmptyLabel(asked)) =>
        \/ naming.text = asked
        \/ /\ Len(asked) > 0
           /\ asked[Len(asked)] = Dot
           /\ naming.text = SubSeq(asked, 1, Len(asked) - 1)

\* every label holds as many bytes as its Length says, at most 63, and the
\* name ends with the empty label
WellFormedName(labels) ==
    /\ Len(labels) > 0
    /\ \A i \in 1..Len(labels) :
          /\ labels[i].Length = Len(labels[i].Data)
          /\ labels[i].Length <= 63
    /\ labels[Len(labels)].Length = 0
    /\ labels[Len(labels)].Data = << >>

\* C12: the labels StringToLabels makes of any string, and the labels
\* parseLabels returns for any buffer it accepts (here the wire form of those
\* labels), have Length = len(Data) <= 63 and end with the empty label.
C12_LabelsWellFormed ==
    pc \in {"string", "named"} =>
        /\ WellFormedName(naming.labels)
        /\ LET r == parseLabels(NameToBytes(naming.labels), 0)
           IN  r.kind = "ok" => WellFormedName(r.labels)

\* addresses at the ends of the byte range
EdgeAddresses == {<< 0, 0, 0, 0 >>, << 255, 255, 255, 255 >>, << 127, 0, 0, 1 >>, Address4}

\* the record whose name starts at offset i of b has Type A and RDLength 4,
\* and its 4 data bytes are in b
IsAddressRecord(b, i) ==
    LET e == NameFieldEnd(b, i)
    IN  /\ parseLabels(b, i).kind = "ok"
        /\ e # -1
        /\ e + 14 <= Len(b)
        /\ Be16(b, e + 1) = TypeA
        /\ Be16(b, e + 9) = 4

\* that record decodes to an ARecord holding the 4 bytes as they stand
DecodesToA(b, i) ==
    LET e == NameFieldEnd(b, i)
        r == parseResourceRecord(b, i)
    IN  /\ r.kind = "ok"
        /\ r.rr.Type = TypeA
        /\ r.rr.RData.variant = "A"
        /\ RDataBytes(r.rr.RData) = SubSeq(b, e + 11, e + 14)

\* C13: a record of Type A with RDLength 4 decodes to the A variant whose
\* Bytes are the 4 data bytes in order, never to the Generic variant.
C13_AddressRecordDecodes ==
    /\ pc = "done" =>
          \A i \in 0..Len(responseBytes) :
              IsAddressRecord(responseBytes, i) => DecodesToA(responseBytes, i)
    /\ \A a \in EdgeAddresses :
          LET b == PeerRecord(<< 0 >>, << TypeA, 4, a >>)
          IN  IsAddressRecord(b, 0) /\ DecodesToA(b, 0)

C13_Witness ==
    /\ pc = "done"
    /\ response.kind = "ok"
    /\ Len(response.msg.Answer) = 1
    /\ response.msg.Answer[1].Type = TypeA
    /\ response.msg.Answer[1].RDLength = 4
    /\ response.msg.Answer[1].RData = ARecord(<< 93, 184, 216, 34 >>)
    /\ RDataBytes(response.msg.Answer[1].RData) = << 93, 184, 216, 34 >>

RECURSIVE PointerOf(_, _)
\* the offset of the pointer that ends the name field starting at offset i
\* of b after zero or more ordinary labels, or -1 when the field has none
PointerOf(b, i) ==
    IF i >= Len(b) THEN -1
    ELSE IF b[i + 1] >= PointerFlag THEN (IF i + 2 > Len(b) THEN -1 ELSE i)
    ELSE IF b[i + 1] = 0 THEN -1
    ELSE IF i + 1 + b[i + 1] > Len(b) THEN -1
    ELSE PointerOf(b, i + 1 + b[i + 1])

RECURSIVE LabelsBetween(_, _, _)
\* the ordinary labels laid out from offset i up to offset stop
LabelsBetween(b, i, stop) ==
    IF i >= stop THEN << >>
    ELSE << Label(b[i + 1], SubSeq(b, i + 2, i + 1 + b[i + 1])) >>
         \o LabelsBetween(b, i + 1 + b[i + 1], stop)

\* the offset the pointer at offset j names
TargetOf(b, j) == (b[j + 1] - PointerFlag) * 256 + b[j + 2]

\* a whole name without a pointer starts at offset p
PlainNameAt(b, p) == NameFieldEnd(b, p) # -1 /\ PointerOf(b, p) = -1

\* the field at q is ordinary labels and then a pointer back to a plain name
PointsBackToName(b, q) ==
    /\ PointerOf(b, q) # -1
    /\ TargetOf(b, PointerOf(b, q)) < q
    /\ PlainNameAt(b, TargetOf(b, PointerOf(b, q)))

\* C14: a name field made of ordinary labels and a pointer to an earlier
\* uncompressed name decodes to those labels followed by the labels decoded
\* at the pointer's target; a bare pointer gives the target's labels.
C14_PointerExpands ==
    pc = "done" =>
        \A q \in 0..Len(responseBytes) :
            PointsBackToName(responseBytes, q) =>
                LET j == PointerOf(responseBytes, q)
                    first == parseLabels(responseBytes, TargetOf(responseBytes, j))
                    later == parseLabels(responseBytes, q)
                IN  /\ first.kind = "ok"
                    /\ later.kind = "ok"
                    /\ later.labels = LabelsBetween(responseBytes, q, j) \o first.labels
                    /\ later.index = j + 2

C14_Witness ==
    /\ pc = "done"
    /\ config.Protocol = "udp"
    /\ response.kind = "ok"
    /\ Len(response.msg.Question) = 1
    /\ Len(response.msg.Answer) = 1
    /\ response.msg.Question[1].Name = << Label(1, << 97 >>), Label(0, << >>) >>
    /\ PointsBackToName(responseBytes, 19)
    /\ PointerOf(responseBytes, 19) = 19
    /\ response.msg.Answer[1].Name = response.msg.Question[1].Name
    /\ PointsBackToName(responseBytes, 31)
    /\ PointerOf(responseBytes, 31) = 33
    /\ response.msg.Answer[1].RData.NameServer
         = << Label(1, << 97 >>) >> \o response.msg.Question[1].Name

LetterOrDigit(c) == c \in (48..57) \cup (65..90) \cup (97..122)

\* the domain is one ValidateDomain is to reject: empty, longer than 253
\* characters, or, once a trailing dot is removed, with an empty label, a
\* label longer than 63 characters, a label not starting and ending with a
\* letter or digit, or a character that is no letter, digit, hyphen or dot
Rejected(d) ==
    LET t == IF Len(d) > 0 /\ d[Len(d)] = Dot THEN SubSeq(d, 1, Len(d) - 1) ELSE d
    IN  \/ Len(d) = 0
        \/ Len(d) > 253
        \/ Len(t) = 0
        \/ t[1] = Dot \/ t[Len(t)] = Dot
        \/ \E i \in 1..(Len(t) - 1) : t[i] = Dot /\ t[i + 1] = Dot
        \/ \E i \in 1..(Len(t) - 63) : \A k \in i..(i + 63) : t[k] # Dot
        \/ ~LetterOrDigit(t[1]) \/ ~LetterOrDigit(t[Len(t)])
        \/ \E i \in 1..(Len(t) - 1) :
              \/ t[i] = Dot /\ ~LetterOrDigit(t[i + 1])
              \/ t[i + 1] = Dot /\ ~LetterOrDigit(t[i])
        \/ \E i \in 1..Len(t) : ~LetterOrDigit(t[i]) /\ t[i] # Hyphen /\ t[i] # Dot

\* C15: when ValidateDomain rejects the domain, Query returns an error and
\* has built no query and dialed, written and read nothing.
C15_InvalidDomainStopsQuery ==
    (pc # "idle" /\ Rejected(asked)) =>
        /\ pc = "done"
        /\ response.kind = "err"
        /\ response.err = "invalid domain"
        /\ response.msg.nil
        /\ query.nil
        /\ queryBytes = << >>
        /\ responseBytes = << >>
        /\ net = NoTraffic

C15_Witness ==
    /\ pc = "done"
    /\ asked = << 97, 46, 46, 98 >>
    /\ Rejected(asked)
    /\ response.err = "invalid domain"
    /\ net = NoTraffic
    /\ query.nil

\* C16: a query for a valid domain that ends in an error has been attempted
\* RetryCount + 1 times, one connection per attempt, and no query is
\* attempted more often than that.
C16_RetriesOnFailure ==
    (pc = "done" /\ ~Rejected(asked)) =>
        /\ net.dials <= config.RetryCount + 1
        /\ response.kind = "err" => net.dials = config.RetryCount + 1

\* what the call returns when it runs alone
Alone(c, protocol) ==
    IF c.op = "encode" THEN CallResult("ok", NilMessage, ToBytes(c.input), "")
    ELSE CallResult(parseResponse(c.input, c.id, protocol).kind,
                    parseResponse(c.input, c.id, protocol).msg, << >>,
                    parseResponse(c.input, c.id, protocol).err)

\* every call that is over has returned what it returns alone
SameAsAlone ==
    pc = "calls" =>
        \A t \in Calls :
            calls[t].stage \in {"returned", "killed"} =>
                calls[t].out = Alone(calls[t], config.Protocol)

\* a step moves the cursor of one call at most, and to where that call's
\* own locals put it
OwnCursor ==
    pc = "calls" =>
        \A t \in Calls :
            calls'[t].index # calls[t].index =>
                /\ calls'[t].index = CallStep(calls[t], config.Protocol).index
                /\ \A u \in Calls \ {t} : calls'[u].index = calls[u].index

\* C17: concurrent parseResponse and ToBytes calls on buffers and messages of
\* their own each return, under every interleaving, what they return alone,
\* and no call's cursor is moved by another call.
C17_CallsIndependent == []SameAsAlone /\ [][OwnCursor]_vars

\* the message bytes among the bytes written: all of them, or all after the
\* 2-byte length prefix of a stream
Sent == IF config.Protocol = "tcp" THEN SubSeq(queryBytes, 3, Len(queryBytes)) ELSE queryBytes

\* the encodings of all entries of a message in wire order
EntriesInOrder(m) ==
    [i \in 1..Len(m.Question) |-> QuestionToBytes(m.Question[i])]
    \o [i \in 1..Len(m.Answer) |-> ResourceRecordToBytes(m.Answer[i])]
    \o [i \in 1..Len(m.Authority) |-> ResourceRecordToBytes(m.Authority[i])]
    \o [i \in 1..Len(m.Additional) |-> ResourceRecordToBytes(m.Additional[i])]

RECURSIVE LaidOutFrom(_, _, _, _)
\* the entries k.. lie one after the other in b from offset off to its end
LaidOutFrom(b, off, entries, k) ==
    IF k > Len(entries) THEN off = Len(b)
    ELSE /\ SubSeq(b, off + 1, off + Len(entries[k])) = entries[k]
         /\ LaidOutFrom(b, off + Len(entries[k]), entries, k + 1)

\* C18: the bytes ToBytes emits are the header, then every question, answer,
\* authority and additional entry in list order, and nothing else.
C18_SectionsInOrder ==
    pc \in {"read", "done"} =>
        /\ Len(Sent) >= HeaderSize
        /\ SubSeq(Sent, 1, HeaderSize) = HeaderToBytes(query.Header)
        /\ LaidOutFrom(Sent, HeaderSize, EntriesInOrder(query), 1)

C18_Witness ==
    /\ pc = "done"
    /\ Len(query.Question) = 1
    /\ Len(query.Answer) = 1
    /\ Len(query.Authority) = 1
    /\ Len(query.Additional) = 1
    /\ query.Answer[1].Type = TypeA
    /\ query.Authority[1].Type = TypeNS
    /\ query.Additional[1].Type = TypeAAAA
    /\ Len(Sent) = 12 + 13 + 23 + 16 + 29

\* all resource records of a message
RecordsOf(m) == m.Answer \o m.Authority \o m.Additional

\* C19: the RDLength a record is encoded with is the number of bytes its
\* RData.Bytes() gives, whatever the record's RDLength field holds, so the
\* encoded RDLength counts the RDATA bytes that follow it.
C19_LengthRecomputed ==
    pc \in {"read", "done"} =>
        \A k \in 1..Len(RecordsOf(query)) :
            LET rr == RecordsOf(query)[k]
                w == ResourceRecordToBytes(rr)
                n == Len(NameToBytes(rr.Name))
            IN  /\ Be16(w, n + 9) = Len(RDataBytes(rr.RData))
                /\ Len(w) = n + 10 + Be16(w, n + 9)

\* C20: a record of Type A whose RDLength is not 4, or of Type AAAA whose
\* RDLength is not 16, with its data inside the buffer, decodes without error
\* to the Generic variant tagged with its Type, and decoding goes on after it.
C20_WrongLengthIsGeneric ==
    pc = "done" =>
        \A i \in 0..Len(responseBytes) :
            LET b == responseBytes
                e == NameFieldEnd(b, i)
                r == parseResourceRecord(b, i)
            IN  (/\ parseLabels(b, i).kind = "ok"
                 /\ e # -1
                 /\ e + 10 <= Len(b)
                 /\ e + 10 + Be16(b, e + 9) <= Len(b)
                 /\ \/ Be16(b, e + 1) = TypeA /\ Be16(b, e + 9) # 4
                    \/ Be16(b, e + 1) = TypeAAAA /\ Be16(b, e + 9) # 16)
                => /\ r.kind = "ok"
                   /\ r.rr.RData.variant = "Generic"
                   /\ r.rr.RData.RecordType = Be16(b, e + 1)
                   /\ r.index = e + 10 + Be16(b, e + 9)

\* a record with its fixed fields and its data inside b starts at offset i
WholeRecordAt(b, i) ==
    /\ parseLabels(b, i).kind = "ok"
    /\ NameFieldEnd(b, i) # -1
    /\ NameFieldEnd(b, i) + 10 <= Len(b)
    /\ NameFieldEnd(b, i) + 10 + Be16(b, NameFieldEnd(b, i) + 9) <= Len(b)

\* the Type, the RDLength and the RDATA bytes of that record as they stand in b
WireType(b, i) == Be16(b, NameFieldEnd(b, i) + 1)
WireRDLength(b, i) == Be16(b, NameFieldEnd(b, i) + 9)
WireRData(b, i) ==
    SubSeq(b, NameFieldEnd(b, i) + 11, NameFieldEnd(b, i) + 10 + WireRDLength(b, i))

\* C21: a record of a Type other than A, AAAA and NS decodes to the Generic
\* variant whose Bytes() are the RDLength raw bytes of the message in order
\* and whose Type() is the record's type code.
C21_GenericKeepsBytes ==
    pc = "done" =>
        \A i \in 0..Len(responseBytes) :
            (WholeRecordAt(responseBytes, i)
             /\ WireType(responseBytes, i) \notin {TypeA, TypeAAAA, TypeNS}) =>
                LET r == parseResourceRecord(responseBytes, i)
                IN  /\ r.kind = "ok"
                    /\ r.rr.RData.variant = "Generic"
                    /\ r.rr.RData.RecordType = WireType(responseBytes, i)
                    /\ RDataBytes(r.rr.RData) = WireRData(responseBytes, i)

\* the offset of the first RDATA byte of the record at offset i
RDataStart(b, i) == NameFieldEnd(b, i) + 10

\* C22: when the name in the RDATA of an NS record, decoded at the record's
\* RDATA offset in the message, takes up a number of bytes other than
\* RDLength, decoding fails.
C22_NameServerLengthChecked ==
    pc = "done" =>
        \A i \in 0..Len(responseBytes) :
            (/\ WholeRecordAt(responseBytes, i)
             /\ WireType(responseBytes, i) = TypeNS
             /\ parseLabels(responseBytes, RDataStart(responseBytes, i)).kind = "ok"
             /\ NameFieldEnd(responseBytes, RDataStart(responseBytes, i))
                   - RDataStart(responseBytes, i) # WireRDLength(responseBytes, i))
            => parseResourceRecord(responseBytes, i).kind = "err"

\* C23: every AAAA record with sixteen RDATA bytes, an IPv4-mapped address
\* included, decodes to the AAAA variant holding those sixteen bytes.
C23_SixteenBytesIsAAAA ==
    pc = "done" =>
        \A i \in 0..Len(responseBytes) :
            (/\ WholeRecordAt(responseBytes, i)
             /\ WireType(responseBytes, i) = TypeAAAA
             /\ WireRDLength(responseBytes, i) = 16)
            => LET r == parseResourceRecord(responseBytes, i)
               IN  /\ r.kind = "ok"
                   /\ r.rr.RData.variant = "AAAA"
                   /\ RDataBytes(r.rr.RData) = WireRData(responseBytes, i)

\* the names of the questions and records of a message
NamesOf(m) ==
    {m.Question[k].Name : k \in 1..Len(m.Question)}
    \cup {RecordsOf(m)[k].Name : k \in 1..Len(RecordsOf(m))}

\* the octets a name takes when written: a length byte and the data of each label
NameOctets(labels) == Len(NameToBytes(labels))

\* a name no encoder may write: a label over 63 bytes or over 255 octets in all
Unencodable(labels) ==
    \/ \E k \in 1..Len(labels) :
          labels[k].Length > MaxLabelLen \/ Len(labels[k].Data) > MaxLabelLen
    \/ NameOctets(labels) > 255

\* C24: encoding a message that holds a name with a label over 63 bytes, or
\* a name over 255 octets, writes no bytes.
C24_EncodeValidatesNames ==
    (pc \in {"read", "done"} /\ \E n \in NamesOf(query) : Unencodable(n)) =>
        queryBytes \in {<< >>, Frame(<< >>, config.Protocol)}

\* C25: name decoding that starts at a length byte from 0x40 to 0xBF fails,
\* also when that many data bytes follow in the buffer.
C25_ReservedLengthRefused ==
    pc \in {"string", "named"} =>
        LET w == NameToBytes(naming.labels)
        IN  \A i \in 0..(Len(w) - 1) :
                (w[i + 1] >= 64 /\ w[i + 1] <= 191) => parseLabels(w, i).kind = "err"

\* C26: the cursor parseLabels hands back is the start index plus 1 + length
\* for every label scanned there, plus 2 when the scan ends at a pointer and
\* plus 1 when it ends at the zero label; the pointer's target and what the
\* decode there consumed play no part.
C26_CursorPastNameField ==
    pc = "done" =>
        \A i \in 0..Len(responseBytes) :
            parseLabels(responseBytes, i).kind = "ok" =>
                parseLabels(responseBytes, i).index = NameFieldEnd(responseBytes, i)

\* a response was decoded in which a label is followed by a pointer to a name
\* of three bytes: the cursor is 4 past the start, the name has three labels
C26_Witness ==
    /\ pc = "done"
    /\ response.kind = "ok"
    /\ \E i \in 0..(Len(responseBytes) - 4) :
          /\ responseBytes[i + 1] = 1
          /\ IsPointer(responseBytes[i + 3])
          /\ parseLabels(responseBytes, PointerAt(responseBytes, i + 2)).kind = "ok"
          /\ parseLabels(responseBytes, PointerAt(responseBytes, i + 2)).index
                = PointerAt(responseBytes, i + 2) + 3
          /\ parseLabels(responseBytes, i).kind = "ok"
          /\ parseLabels(responseBytes, i).index = i + 4
          /\ Len(parseLabels(responseBytes, i).labels) = 3

\* the first byte of the TTL field of the record at offset i has its top bit set
WireTTLNegative(b, i) == b[NameFieldEnd(b, i) + 5] >= 128

\* C27: a record whose TTL field has the top bit set is not decoded into a
\* record with a negative TTL without an error being reported.
C27_NegativeTTLReported ==
    pc = "done" =>
        \A i \in 0..Len(responseBytes) :
            (WholeRecordAt(responseBytes, i) /\ WireTTLNegative(responseBytes, i)) =>
                LET r == parseResourceRecord(responseBytes, i)
                IN  ~(r.kind = "ok" /\ r.err = "" /\ r.rr.TTL < 0)

\* C28: a name parseLabels returns takes at most 255 octets, counting a
\* length byte and the data of every label.
C28_DecodedNameAtMost255 ==
    pc \in {"string", "named"} =>
        LET r == parseLabels(NameToBytes(naming.labels), 0)
        IN  r.kind = "ok" => NameOctets(r.labels) <= 255

\* every label but the last holds 1 to 63 bytes and as many as its Length
\* says, the last label is the only empty one, and the name is at most 255 octets
StrictName(labels) ==
    /\ Len(labels) >= 1
    /\ \A k \in 1..(Len(labels) - 1) :
          /\ labels[k].Length = Len(labels[k].Data)
          /\ labels[k].Length >= 1
          /\ labels[k].Length <= MaxLabelLen
    /\ labels[Len(labels)] = Label(0, << >>)
    /\ NameOctets(labels) <= 255

\* the name field at offset HeaderSize of b is the wire form of labels, and
\* no length byte in it has its top two bits set
PlainNameOnWire(b, labels) ==
    /\ Len(b) >= HeaderSize + NameOctets(labels)
    /\ SubSeq(b, HeaderSize + 1, HeaderSize + NameOctets(labels)) = NameToBytes(labels)
    /\ NameFieldEnd(b, HeaderSize) = HeaderSize + NameOctets(labels)
    /\ parseLabels(b, HeaderSize) = LabelsResult("ok", labels, HeaderSize + NameOctets(labels), "")

\* C29: the labels StringToLabels makes of a domain ValidateDomain accepts
\* are a well-formed name (labels of 1 to 63 bytes, one empty label, last, at
\* most 255 octets), and the query built for that domain carries the name
\* uncompressed in its question.
C29_ValidDomainGivesStrictName ==
    (pc \in {"string", "named"} /\ ValidateDomain(asked)) =>
        /\ StrictName(naming.labels)
        /\ \A id \in QueryIDs :
              LET m == buildQuery(asked, TypeA, id, config.RecursionDesired)
              IN  /\ m.Question[1].Name = naming.labels
                  /\ PlainNameOnWire(ToBytes(m), naming.labels)

\* the longest domain accepted was turned into labels: 255 octets
C29_Witness ==
    /\ pc = "named"
    /\ ValidateDomain(asked)
    /\ Len(asked) = MaxDomainLen
    /\ Len(naming.labels) = 5
    /\ NameOctets(naming.labels) = 255

\* C30: the cursor parseResourceRecord hands back is the offset of the
\* first RDATA byte plus RDLength, for NS records too, whatever the decode of
\* the name in the RDATA consumed and whether or not it failed; the cursor
\* moves forward with every question and record and stays within the buffer,
\* so a decoded response holds all the entries its header counts.
C30_CursorPastRData ==
    pc = "done" =>
        /\ \A i \in 0..Len(responseBytes) :
              LET r == parseResourceRecord(responseBytes, i)
              IN  r.kind = "ok" =>
                     /\ NameFieldEnd(responseBytes, i) # -1
                     /\ r.index = RDataStart(responseBytes, i) + WireRDLength(responseBytes, i)
                     /\ r.index > i
                     /\ r.index <= Len(responseBytes)
        /\ \A i \in 0..Len(responseBytes) :
              LET q == parseQuestion(responseBytes, i)
              IN  q.kind = "ok" =>
                     /\ q.index = NameFieldEnd(responseBytes, i) + 4
                     /\ q.index > i
                     /\ q.index <= Len(responseBytes)
        /\ response.kind = "ok" => ~Truncated(Payload)

\* a response was decoded whose answer is an NS record of RDLength 4 with a
\* name of three bytes in it
C30_NameShorterThanRData ==
    /\ pc = "done"
    /\ response.kind = "ok"
    /\ config.Protocol = "udp"
    /\ Len(response.msg.Answer) = 1
    /\ WireType(responseBytes, HeaderSize) = TypeNS
    /\ WireRDLength(responseBytes, HeaderSize) = 4
    /\ response.msg.Answer[1].RData.variant = "NS"
    /\ parseLabels(responseBytes, RDataStart(responseBytes, HeaderSize)).index
          = RDataStart(responseBytes, HeaderSize) + 3
    /\ parseResourceRecord(responseBytes, HeaderSize).index
          = RDataStart(responseBytes, HeaderSize) + 4

\* a response was decoded whose NS answer holds a name that does not decode
C30_NameFails ==
    /\ pc = "done"
    /\ response.kind = "ok"
    /\ config.Protocol = "udp"
    /\ Len(response.msg.Answer) = 1
    /\ WireType(responseBytes, HeaderSize) = TypeNS
    /\ response.msg.Answer[1].RData.variant = "Generic"
    /\ parseLabels(responseBytes, RDataStart(responseBytes, HeaderSize)).kind = "err"
    /\ parseResourceRecord(responseBytes, HeaderSize).index
          = RDataStart(responseBytes, HeaderSize) + 2

===========================================================================
